---- MODULE Spec2Model ----
(***************************************************************************)
(* Request-scoped config cache, server-side data store and client          *)
(* hydration of the STC Next.js front end.                                  *)
(*                                                                         *)
(* JavaScript values are records tagged by their type (field t), so that   *)
(* undefined, null, strings and objects can be told apart and compared.    *)
(***************************************************************************)
EXTENDS Integers, Sequences, FiniteSets, TLC

VARIABLES
    \* one call of the remote config client (src/lib/api.ts)
    fcPhase, fcOutcome, fcNow, fcSettled,
    \* the server's clock (new Date())
    clock,
    \* request cache (server-data-store.ts, React cache version)
    cachePromise, cacheValue, cacheFetches, answered, pc, got,
    \* module-level server store (server-data-store.ts, store version)
    serverSSRData, lpc, published, reads,
    \* the browser session: Providers' props, the render position in the
    \* provider tree, the jotai store and what the children have read
    serverData, props, renderPos, hydratedSet, atoms, observed,
    refreshes, inflight, rerenders, rerenderChanged,
    \* the writes to the config cell after the mount, in their order
    log,
    \* the auth cell, localStorage's "token", window.location.pathname, the
    \* auth calls in flight, a pending full-page navigation and whether
    \* AuthProvider's effect is due
    auth, localToken, pathname, authCalls, navigating, effectDue

fetchVars  == <<fcPhase, fcOutcome, fcNow, fcSettled>>
cacheVars  == <<cachePromise, cacheValue, cacheFetches, answered, pc, got>>
storeVars  == <<serverSSRData, lpc, published, reads>>
clientVars == <<serverData, props, renderPos, hydratedSet, atoms, observed,
                refreshes, inflight, rerenders, rerenderChanged, log>>
authVars   == <<auth, localToken, pathname, authCalls, navigating, effectDue>>
vars == <<fetchVars, clock, cacheVars, storeVars, clientVars, authVars>>

----------------------------------------------------------------------------
(* Bounds of the model *)

\* the clock stops advancing here (new Date() readings)
MaxClock == 3
\* client refreshes started in one session
MaxRefresh == 2
\* re-renders of the provider tree in one session
MaxRerender == 1
\* partial updates applied to the config cell in a row
MaxUpdates == 2

----------------------------------------------------------------------------
(* JavaScript values *)

Undefined == [t |-> "undefined"]
Null      == [t |-> "null"]
Str(s)    == [t |-> "string", v |-> s]
Bool(b)   == [t |-> "boolean", b |-> b]
\* a template string, kept as its parts
Template(parts) == [t |-> "string", parts |-> parts]
\* Date.prototype.toISOString of the n-th clock reading: distinct readings give
\* distinct, non-empty strings
toISOString(n) == [t |-> "string", iso |-> n]

\* JavaScript truthiness of the values used here
Truthy(v) == /\ v.t \notin {"undefined", "null"}
             /\ v # Str("")
             /\ v # Bool(FALSE)

\* property read o.k on an object or primitive (undefined when absent)
Prop(o, k) == IF k \in DOMAIN o /\ k # "t" THEN o[k] ELSE Undefined

Cfg(name, ver) == [t |-> "object", appName |-> Str(name), version |-> Str(ver)]
X1 == Cfg("X", "1")
Y2 == Cfg("Y", "2")

----------------------------------------------------------------------------
(* RemoteConfigClient: fetchConfig, src/lib/api.ts *)

API_BASE_URL == "http://localhost:4000"
fullUrl == "http://localhost:4000/configs"

\* Number.prototype.toString of an HTTP status
StatusToString(n) ==
    CASE n = 401 -> "401"
      [] n = 404 -> "404"
      [] n = 500 -> "500"
      [] n = 503 -> "503"

\* `HTTP ${status}: ${statusText}`
HttpMessage(resp) ==
    Template(<<"HTTP ", StatusToString(resp.status), ": ", resp.statusText>>)

AxiosResponse(status, text) == [t |-> "object", status |-> status, statusText |-> text]

\* The values configService.getConfig can reject with. isError: instanceof Error;
\* hasResponse: "response" in error (axios sets the key only when there is a
\* response in 1.x, always in 0.x).
Err(isObj, isErr, hasResp, resp, req, msg) ==
    [isObject |-> isObj, isError |-> isErr, hasResponse |-> hasResp,
     response |-> resp, request |-> req, message |-> msg]

ErrorShapes ==
    { Err(TRUE, TRUE, TRUE, AxiosResponse(404, "Not Found"), TRUE, Str("Request failed with status code 404")),
      Err(TRUE, TRUE, TRUE, AxiosResponse(500, "Internal Server Error"), TRUE, Str("Request failed with status code 500")),
      Err(TRUE, TRUE, TRUE, AxiosResponse(401, "Unauthorized"), TRUE, Str("Request failed with status code 401")),
      \* network failure, no response (axios 0.x: key present, value undefined)
      Err(TRUE, TRUE, TRUE, Undefined, TRUE, Str("Network Error")),
      \* network failure, no response (axios 1.x: key absent)
      Err(TRUE, TRUE, FALSE, Undefined, TRUE, Str("connect ECONNREFUSED")),
      \* request set-up error: neither response nor request
      Err(TRUE, TRUE, TRUE, Undefined, FALSE, Str("Invalid URL")),
      \* an object with a response key and nothing else
      Err(TRUE, FALSE, TRUE, Undefined, FALSE, Undefined),
      Err(TRUE, FALSE, TRUE, Undefined, FALSE, Str("")),
      \* a plain object, a thrown string, a thrown null
      Err(TRUE, FALSE, FALSE, Undefined, FALSE, Undefined),
      Err(FALSE, FALSE, FALSE, Undefined, FALSE, Undefined),
      \* a generic Error
      Err(TRUE, TRUE, FALSE, Undefined, FALSE, Str("timeout of 10000ms exceeded")) }

\* The bodies (res.data) configService.getConfig can resolve with
Body(result) == [t |-> "object", result |-> result]
EmptyBody == [t |-> "object"]
ResponseBodies ==
    { Body(X1), Body(Y2),
      \* shape failures: no result field, an empty result, an empty text body,
      \* a null body
      EmptyBody, Body([t |-> "object"]), Str(""), Null, Undefined }

Resolved(body) == [kind |-> "resolved", body |-> body, error |-> Undefined]
Rejected(err)  == [kind |-> "rejected", body |-> Undefined, error |-> err]

GetConfigOutcomes ==
    {Resolved(b) : b \in ResponseBodies} \cup {Rejected(e) : e \in ErrorShapes}

\* The three failure kinds of the error taxonomy
NetworkFailure(o) == o.kind = "rejected" /\ o.error.response = Undefined
                        /\ o.error.request
HttpFailure(o)    == o.kind = "rejected" /\ o.error.response # Undefined
ShapeFailure(o)   == o.kind = "resolved"
                        /\ (Prop(o.body, "result") = Undefined
                            \/ Prop(o.body, "result") = [t |-> "object"])

\* a promise's settlement
Fulfilled(v) == [state |-> "fulfilled", value |-> v]
Throws(e)    == [state |-> "rejected", value |-> e]

TypeErrorShape == Err(TRUE, TRUE, FALSE, Undefined, FALSE,
                      Str("Cannot read properties of null (reading 'result')"))

\* lines 16-26: await getConfig(); return { result: response.result }
FetchTry(o) ==
    IF o.kind = "rejected" THEN Throws(o.error)
    ELSE IF o.body.t \in {"null", "undefined"} THEN Throws(TypeErrorShape)
    ELSE Fulfilled([result |-> Prop(o.body, "result")])

\* an error message taken from the error as it is, with no default
ErrorMessageRaw(error) == error.message

\* lines 33-67: the error message and status code of the fallback
ErrorMessage(error) ==
    IF error.isObject /\ error.hasResponse
    THEN IF Truthy(error.response) THEN HttpMessage(error.response)
         ELSE IF error.request
              THEN Str("No response received from server - API may be offline")
         ELSE IF Truthy(error.message) THEN error.message
         ELSE Str("Unknown error")
    ELSE IF error.isError THEN error.message
    ELSE Str("Unknown error")

StatusCode(error) ==
    IF error.isObject /\ error.hasResponse /\ Truthy(error.response)
    THEN Str(StatusToString(error.response.status))
    ELSE Str("Unknown")

\* lines 70-92: the fallback response
FallbackResponse(error, now) ==
    [result |->
       [t |-> "object",
        error |-> Template(<<"Failed to connect to STC API at ", fullUrl>>),
        errorDetails |-> ErrorMessage(error),
        statusCode |-> StatusCode(error),
        fallbackData |-> Bool(TRUE),
        appName |-> Str("Skilled Trades Connect (Fallback)"),
        version |-> Str("1.0.0-fallback"),
        environment |-> Str("development"),
        apiStatus |-> Str("disconnected"),
        lastAttempt |-> toISOString(now),
        expectedEndpoint |-> Str(fullUrl),
        features |-> [t |-> "object", jobBoard |-> TRUE, userProfiles |-> TRUE,
                      messaging |-> TRUE],
        settings |-> [t |-> "object", itemsPerPage |-> 10,
                      maxFileSize |-> Str("5MB")]]]

\* lines 27-101: the catch block; it has no statement that throws for the
\* errors above (response.status is a number, api.ts:38)
FetchCatch(error, now) == Fulfilled(FallbackResponse(error, now))

\* a fetchConfig whose catch block rethrows
FetchConfigRethrows(o, now) == FetchTry(o)

\* fetchConfig(): the settlement of the promise it returns
FetchConfig(o, now) ==
    IF FetchTry(o).state = "fulfilled" THEN FetchTry(o)
    ELSE FetchCatch(FetchTry(o).value, now)

\* a degraded snapshot: marked as fallback, with a machine-readable code and a
\* human-readable detail
Degraded(result) ==
    /\ result.t = "object"
    /\ Prop(result, "fallbackData") = Bool(TRUE)
    /\ Prop(result, "statusCode").t = "string"
    /\ Prop(result, "errorDetails").t = "string"
    /\ Prop(result, "error").t = "string"

----------------------------------------------------------------------------
(* One call of fetchConfig, from its invocation to its settlement *)

FetchInit ==
    /\ fcPhase = "idle"
    /\ fcOutcome = Resolved(Undefined)
    /\ fcNow = 1
    /\ fcSettled = Fulfilled(Undefined)

\* fetchConfig() is called; getConfig will settle with outcome o at time now
FetchCall ==
    /\ fcPhase = "idle"
    /\ \E o \in GetConfigOutcomes, now \in 1..MaxClock :
          /\ fcOutcome' = o
          /\ fcNow' = now
    /\ fcPhase' = "pending"
    /\ UNCHANGED fcSettled

\* getConfig settles and fetchConfig runs to its return
FetchSettle ==
    /\ fcPhase = "pending"
    /\ fcSettled' = FetchConfig(fcOutcome, fcNow)
    /\ fcPhase' = "settled"
    /\ UNCHANGED <<fcOutcome, fcNow>>

\* the caller has taken the result; the next call can start
FetchDone ==
    /\ fcPhase = "settled"
    /\ fcPhase' = "idle"
    /\ UNCHANGED <<fcOutcome, fcNow, fcSettled>>

----------------------------------------------------------------------------
(* RequestCache: getCachedConfigData = cache(async () => ...),             *)
(* server-data-store.ts (React cache version)                              *)

Req == {"A", "B"}

\* the server components of one request that call the request cache
Callers == {"Root Layout", "SSR Demo Page", "GreatGrandChild Component"}

\* what the remote service can answer to a server-side fetch
RemoteOutcomes ==
    { Resolved(Body(X1)), Resolved(Body(Y2)), Resolved(EmptyBody),
      Rejected(Err(TRUE, TRUE, FALSE, Undefined, TRUE, Str("connect ECONNREFUSED"))) }

NoValue == [t |-> "undefined"]

\* a memo shared by every request of the process
CacheKeyGlobal(r) == "A"

\* React's cache() memoizes per server request: the memo of a call with no
\* arguments is found under the request that is rendering
CacheKey(r) == r

\* a memo that is filled only when the promise has resolved
MemoHitWhenResolved(key) == cachePromise[key] = "resolved"

\* cache() stores the promise returned by the first call, pending or not
MemoHit(key) == cachePromise[key] # "none"

\* a cache that treats an error snapshot as a failed fetch
CachedConfigDataSwallowing(settled, now) ==
    IF settled.state = "fulfilled" /\ ~Degraded(settled.value.result)
    THEN [config |-> settled.value.result, timestamp |-> toISOString(now),
          source |-> Str("React Cache")]
    ELSE [config |-> Null, timestamp |-> toISOString(now),
          source |-> Str("React Cache (Error)")]

\* lines 35-58: the SSRData getCachedConfigData resolves with
CachedConfigData(settled, now) ==
    IF settled.state = "fulfilled"
    THEN [config |-> settled.value.result, timestamp |-> toISOString(now),
          source |-> Str("React Cache")]
    ELSE [config |-> Null, timestamp |-> toISOString(now),
          source |-> Str("React Cache (Error)")]

\* a wrapper that labels the data with the component that asked for it
ConfigDataLabelled(componentName, data) ==
    [data EXCEPT !.source = Str(componentName)]

\* lines 62-74: getConfigDataForComponent returns the cached data as it is
ConfigDataForComponent(componentName, data) == data

CacheInit ==
    /\ cachePromise = [r \in Req |-> "none"]
    /\ cacheValue = [r \in Req |-> NoValue]
    /\ cacheFetches = [r \in Req |-> 0]
    /\ answered = [r \in Req |-> NoValue]
    /\ pc = [r \in Req |-> [c \in Callers |-> "idle"]]
    /\ got = [r \in Req |-> [c \in Callers |-> NoValue]]

\* time passes
Tick ==
    /\ clock < MaxClock
    /\ clock' = clock + 1

\* a component calls getCachedConfigData and the memo is empty: the function
\* body runs up to its await, which invokes fetchConfig
CacheMiss(r, c) ==
    /\ pc[r][c] = "idle"
    /\ ~MemoHit(CacheKey(r))
    /\ cachePromise' = [cachePromise EXCEPT ![CacheKey(r)] = "pending"]
    /\ cacheFetches' = [cacheFetches EXCEPT ![r] = @ + 1]
    /\ pc' = [pc EXCEPT ![r][c] = "waiting"]
    /\ UNCHANGED <<cacheValue, answered, got>>

\* a component calls getCachedConfigData and gets the memoized promise
CacheHit(r, c) ==
    /\ pc[r][c] = "idle"
    /\ MemoHit(CacheKey(r))
    /\ pc' = [pc EXCEPT ![r][c] = "waiting"]
    /\ UNCHANGED <<cachePromise, cacheValue, cacheFetches, answered, got>>

\* the remote service answers the fetch of request r; fetchConfig settles and
\* getCachedConfigData resolves its promise
RemoteAnswers(r) ==
    /\ cacheFetches[r] > 0
    /\ answered[r] = NoValue
    /\ \E o \in RemoteOutcomes :
          /\ answered' = [answered EXCEPT ![r] = FetchConfig(o, clock)]
          /\ cacheValue' = [cacheValue EXCEPT ![CacheKey(r)] =
                               CachedConfigData(FetchConfig(o, clock), clock)]
    /\ cachePromise' = [cachePromise EXCEPT ![CacheKey(r)] = "resolved"]
    /\ UNCHANGED <<cacheFetches, pc, got>>

\* a waiting component resumes with the value of the promise
Resume(r, c) ==
    /\ pc[r][c] = "waiting"
    /\ cachePromise[CacheKey(r)] = "resolved"
    /\ got' = [got EXCEPT ![r][c] =
                  ConfigDataForComponent(c, cacheValue[CacheKey(r)])]
    /\ pc' = [pc EXCEPT ![r][c] = "done"]
    /\ UNCHANGED <<cachePromise, cacheValue, cacheFetches, answered>>

----------------------------------------------------------------------------
(* ServerStateRegistry: the module-level serverSSRData,                    *)
(* server-data-store.ts (store version), and the layout that publishes     *)

\* lines 51-55 and 71-75: the empty entry
EmptySSRData == [config |-> Null, timestamp |-> Str(""), source |-> Str("")]

\* a slot that keeps the first entry published to it
SetServerSSRDataKeepingFirst(cur, data) ==
    IF cur = [config |-> Null, timestamp |-> Str(""), source |-> Str("")]
    THEN [k \in DOMAIN cur \cup DOMAIN data |->
             IF k \in DOMAIN data THEN data[k] ELSE cur[k]]
    ELSE cur

\* line 58: serverSSRData = { ...serverSSRData, ...data }
SetServerSSRData(cur, data) ==
    [k \in DOMAIN cur \cup DOMAIN data |->
        IF k \in DOMAIN data THEN data[k] ELSE cur[k]]

\* line 67: a copy of the slot
GetServerSSRData(cur) == cur

\* a reset that leaves the slot as it is
ResetServerSSRDataKeeping(cur) == cur

\* lines 70-77: resetServerSSRData puts the empty entry into the slot
ResetServerSSRData(cur) == EmptySSRData

\* layout.tsx (store version) lines 137-146: the entry the layout publishes
LayoutEntry(settled, now) ==
    [config |-> settled.value.result, timestamp |-> toISOString(now),
     source |-> Str("Root Layout")]

StoreInit ==
    /\ serverSSRData = EmptySSRData
    /\ lpc = [r \in Req |-> "idle"]
    /\ published = [r \in Req |-> NoValue]
    /\ reads = [r \in Req |-> NoValue]

\* a request arrives: RootLayout runs up to await fetchConfig()
LayoutFetch(r) ==
    /\ lpc[r] = "idle"
    /\ lpc' = [lpc EXCEPT ![r] = "fetching"]
    /\ UNCHANGED <<serverSSRData, published, reads>>

\* a layout that returns its tree without publishing
LayoutPublishSkipping(r, o) ==
    /\ lpc[r] = "fetching"
    /\ lpc' = [lpc EXCEPT ![r] = "rendering"]
    /\ UNCHANGED <<serverSSRData, published, reads>>

\* fetchConfig settles on the remote outcome o; the layout publishes the entry
\* and returns its tree
LayoutPublishWith(r, o) ==
    /\ lpc[r] = "fetching"
    /\ LET settled == FetchConfig(o, clock) IN
       IF settled.state = "fulfilled"
       THEN /\ serverSSRData' = SetServerSSRData(serverSSRData,
                                                 LayoutEntry(settled, clock))
            /\ published' = [published EXCEPT ![r] = LayoutEntry(settled, clock)]
       ELSE UNCHANGED <<serverSSRData, published>>
    /\ lpc' = [lpc EXCEPT ![r] = "rendering"]
    /\ UNCHANGED reads

LayoutPublish(r) == \E o \in RemoteOutcomes : LayoutPublishWith(r, o)

\* GreatGrandChildComponent of request r renders: it reads the slot
DescendantRead(r) ==
    /\ lpc[r] = "rendering"
    /\ reads' = [reads EXCEPT ![r] = GetServerSSRData(serverSSRData)]
    /\ lpc' = [lpc EXCEPT ![r] = "done"]
    /\ UNCHANGED <<serverSSRData, published>>

\* every step of every other request has run: none is between its layout's
\* start and its descendant's read
OneAtATime(r) == \A r2 \in Req \ {r} : lpc[r2] \in {"idle", "done"}

\* the response of request r is sent; a new request takes its place
RequestEnds(r) ==
    /\ lpc[r] = "done"
    /\ lpc' = [lpc EXCEPT ![r] = "idle"]
    /\ published' = [published EXCEPT ![r] = NoValue]
    /\ reads' = [reads EXCEPT ![r] = NoValue]
    /\ UNCHANGED serverSSRData

----------------------------------------------------------------------------
(* HydrationBridge and ClientStore: Providers, HydrateClientAtoms,         *)
(* SSRProvider, useHydrateAtoms, the config store and its refresh          *)

Cells == {"configAtom", "ssrConfigAtom", "ssrTimestampAtom", "ssrSourceAtom"}

\* store/config.ts lines 11-15 and server-data-store.ts lines 9-11: the
\* declared defaults
DefaultOf(cell) ==
    CASE cell = "configAtom" -> [config |-> Null, isLoading |-> FALSE, error |-> Null]
      [] cell = "ssrConfigAtom" -> Null
      [] cell = "ssrTimestampAtom" -> Str("")
      [] cell = "ssrSourceAtom" -> Str("")

\* a prepareSSRData that pairs the timestamp and the source with each other's atom
PrepareSSRDataSwapped(data) ==
    (IF Prop(data, "config") # Undefined
     THEN << <<"ssrConfigAtom", data.config>> >> ELSE << >>)
    \o (IF Prop(data, "timestamp") # Undefined
        THEN << <<"ssrSourceAtom", data.timestamp>> >> ELSE << >>)
    \o (IF Prop(data, "source") # Undefined
        THEN << <<"ssrTimestampAtom", data.source>> >> ELSE << >>)

\* a prepareSSRData that tests the fields for truthiness
PrepareSSRDataTruthy(data) ==
    (IF Truthy(Prop(data, "config"))
     THEN << <<"ssrConfigAtom", data.config>> >> ELSE << >>)
    \o (IF Truthy(Prop(data, "timestamp"))
        THEN << <<"ssrTimestampAtom", data.timestamp>> >> ELSE << >>)
    \o (IF Truthy(Prop(data, "source"))
        THEN << <<"ssrSourceAtom", data.source>> >> ELSE << >>)

\* server-data-store.ts, prepareSSRData: one pair per defined field, in the
\* order config, timestamp, source
PrepareSSRData(data) ==
    (IF Prop(data, "config") # Undefined
     THEN << <<"ssrConfigAtom", data.config>> >> ELSE << >>)
    \o (IF Prop(data, "timestamp") # Undefined
        THEN << <<"ssrTimestampAtom", data.timestamp>> >> ELSE << >>)
    \o (IF Prop(data, "source") # Undefined
        THEN << <<"ssrSourceAtom", data.source>> >> ELSE << >>)

\* ssr-provider.tsx line 47
SSRProviderAtoms(ssrData) ==
    IF Truthy(ssrData) THEN PrepareSSRData(ssrData) ELSE << >>

\* providers.tsx lines 56-64 (the auth pair is not part of this model)
HydrateClientAtomsList(initialData) ==
    IF Truthy(initialData) /\ Truthy(Prop(initialData, "config"))
    THEN << <<"configAtom", [config |-> initialData.config,
                             isLoading |-> FALSE, error |-> Null]>> >>
    ELSE << >>

\* jotai's useHydrateAtoms: each atom is written once per store, the first
\* time a pair for it is seen; st is [hyd, cells]
RECURSIVE UseHydrateAtoms(_, _)
UseHydrateAtoms(st, values) ==
    IF Len(values) = 0 THEN st
    ELSE LET a  == Head(values)[1]
             v  == Head(values)[2]
             st2 == IF a \notin st.hyd
                    THEN [hyd |-> st.hyd \cup {a},
                          cells |-> [st.cells EXCEPT ![a] = v]]
                    ELSE st
         IN UseHydrateAtoms(st2, Tail(values))

\* a layout that labels the hydration payload with its own name
RootLayoutPropsRelabelled(data) ==
    [initialData |-> [t |-> "object", config |-> data.config],
     ssrData |-> [t |-> "object", config |-> data.config,
                  timestamp |-> data.timestamp, source |-> Str("Root Layout")]]

\* layout.tsx (React cache version) lines 60-72: the props handed to Providers
RootLayoutProps(data) ==
    [initialData |-> [t |-> "object", config |-> data.config],
     ssrData |-> [t |-> "object", config |-> data.config,
                  timestamp |-> data.timestamp, source |-> data.source]]

\* children rendered before the providers have hydrated (hydration in an effect)
RenderOrderEffect == <<"children", "HydrateClientAtoms", "SSRProvider", "AuthProvider">>

\* providers.tsx lines 28-42: a parent renders before its children
RenderOrder == <<"HydrateClientAtoms", "SSRProvider", "AuthProvider", "children">>

Mounted == renderPos > Len(RenderOrder)
Rendering(component) == ~Mounted /\ RenderOrder[renderPos] = component

\* an update that keeps a config the store already holds
UpdateConfigAtomKeepingConfig(current, update) ==
    [k \in DOMAIN current \cup DOMAIN update |->
        IF k \in DOMAIN update /\ (k # "config" \/ current[k] = Null)
        THEN update[k] ELSE current[k]]

\* an update that replaces the cell: a field the update does not name goes
\* back to its default
UpdateConfigAtomReplacing(current, update) ==
    [k \in DOMAIN current \cup DOMAIN update |->
        IF k \in DOMAIN update THEN update[k]
        ELSE [config |-> Null, isLoading |-> FALSE, error |-> Null][k]]

\* store/config.ts lines 21-27: set(configAtom, { ...current, ...update })
UpdateConfigAtom(current, update) ==
    [k \in DOMAIN current \cup DOMAIN update |->
        IF k \in DOMAIN update THEN update[k] ELSE current[k]]

\* whether the server's payload p carries a value for the cell
Supplied(p, cell) ==
    CASE cell = "configAtom" ->
            Prop(p.initialData, "config").t \notin {"undefined", "null"}
      [] cell = "ssrConfigAtom" ->
            Truthy(p.ssrData) /\ Prop(p.ssrData, "config").t \notin {"undefined", "null"}
      [] cell = "ssrTimestampAtom" ->
            Truthy(p.ssrData) /\ Prop(p.ssrData, "timestamp") # Undefined
      [] cell = "ssrSourceAtom" ->
            Truthy(p.ssrData) /\ Prop(p.ssrData, "source") # Undefined

\* what the children (JotaiSyncDemo) read from store cells under payload p
ReadsOf(cells, p) ==
    {[cell |-> c, value |-> cells[c], supplied |-> Supplied(p, c)] : c \in Cells}

\* the data the request cache can hand to the layout
ServerDataSet ==
    {CachedConfigData(FetchConfig(o, now), now) : o \in RemoteOutcomes, now \in 1..2}

ClientIdle ==
    /\ renderPos = 1
    /\ hydratedSet = {}
    /\ atoms = [c \in Cells |-> DefaultOf(c)]
    /\ observed = {}
    /\ refreshes = 0
    /\ inflight = {}
    /\ rerenders = 0
    /\ rerenderChanged = FALSE
    /\ log = << >>

\* the page is loaded: the layout has rendered on the server with serverData
ClientInit ==
    /\ serverData \in ServerDataSet
    /\ props = RootLayoutProps(serverData)
    /\ ClientIdle

RenderHydrateClientAtoms ==
    /\ Rendering("HydrateClientAtoms")
    /\ LET st == UseHydrateAtoms([hyd |-> hydratedSet, cells |-> atoms],
                                 HydrateClientAtomsList(props.initialData))
       IN /\ hydratedSet' = st.hyd
          /\ atoms' = st.cells
    /\ renderPos' = renderPos + 1
    /\ UNCHANGED <<serverData, props, observed, refreshes, inflight, rerenders,
                   rerenderChanged, log>>

RenderSSRProvider ==
    /\ Rendering("SSRProvider")
    /\ LET st == UseHydrateAtoms([hyd |-> hydratedSet, cells |-> atoms],
                                 SSRProviderAtoms(props.ssrData))
       IN /\ hydratedSet' = st.hyd
          /\ atoms' = st.cells
    /\ renderPos' = renderPos + 1
    /\ UNCHANGED <<serverData, props, observed, refreshes, inflight, rerenders,
                   rerenderChanged, log>>

\* AuthProvider reads the auth store only
RenderAuthProvider ==
    /\ Rendering("AuthProvider")
    /\ renderPos' = renderPos + 1
    /\ UNCHANGED <<serverData, props, hydratedSet, atoms, observed, refreshes,
                   inflight, rerenders, rerenderChanged, log>>

\* the page's client components render and read the store
RenderChildren ==
    /\ Rendering("children")
    /\ observed' = observed \cup ReadsOf(atoms, props)
    /\ renderPos' = renderPos + 1
    /\ UNCHANGED <<serverData, props, hydratedSet, atoms, refreshes, inflight,
                   rerenders, rerenderChanged, log>>

\* a store update re-renders the subscribed children
ChildRead ==
    /\ Mounted
    /\ observed' = observed \cup ReadsOf(atoms, props)
    /\ UNCHANGED <<serverData, props, renderPos, hydratedSet, atoms, refreshes,
                   inflight, rerenders, rerenderChanged, log>>

\* the components with a refresh button
Buttons == {"ConfigDisplay", "JotaiSyncDemo"}

\* config-display.tsx line 55 and jotai-sync-demo.tsx line 48: the button's
\* disabled prop, read from the config cell by both components
Disabled(button) == atoms["configAtom"].isLoading

\* an entry of the log of writes to the config cell; a start carries the
\* config held when the refresh started, a completion the fetched result
Event(ev, id, ok, result) == [ev |-> ev, id |-> id, ok |-> ok, result |-> result]

\* a start update that clears the config
RefreshStartUpdateClearing == [config |-> Null, isLoading |-> TRUE, error |-> Null]

\* refreshConfig line 38: updateConfig({ isLoading: true, error: null })
RefreshStartUpdate == [isLoading |-> TRUE, error |-> Null]

\* a success update that does not clear the loading flag
RefreshSuccessUpdateLoading(result) ==
    [config |-> result, isLoading |-> TRUE, error |-> Null]

\* refreshConfig lines 44-48: the update of the try block
RefreshSuccessUpdate(result) ==
    [config |-> result, isLoading |-> FALSE, error |-> Null]

\* a failure update that leaves the loading flag set
RefreshFailureUpdateLoading ==
    [isLoading |-> TRUE, error |-> Str("Failed to refresh config")]

\* a failure update that clears the config
RefreshFailureUpdateClearing ==
    [config |-> Null, isLoading |-> FALSE, error |-> Str("Failed to refresh config")]

\* refreshConfig lines 51-54: the update of the catch block
RefreshFailureUpdate ==
    [isLoading |-> FALSE, error |-> Str("Failed to refresh config")]

\* refreshConfig lines 40-45: await getConfig(); response.result
RefreshTry(o) ==
    IF o.kind = "rejected" THEN Throws(o.error)
    ELSE IF o.body.t \in {"null", "undefined"} THEN Throws(TypeErrorShape)
    ELSE Fulfilled(Prop(o.body, "result"))

\* a click on an enabled refresh button: refreshConfig runs up to its await
RefreshStart(button) ==
    /\ Mounted
    /\ ~Disabled(button)
    /\ refreshes < MaxRefresh
    /\ refreshes' = refreshes + 1
    /\ inflight' = inflight \cup {refreshes + 1}
    /\ atoms' = [atoms EXCEPT !["configAtom"] =
                    UpdateConfigAtom(@, RefreshStartUpdate)]
    /\ log' = Append(log, Event("start", refreshes + 1, TRUE,
                                atoms["configAtom"].config))
    /\ UNCHANGED <<serverData, props, renderPos, hydratedSet, observed, rerenders,
                   rerenderChanged>>

\* getConfig settles with outcome o for refresh id: the try block or the catch
\* block runs
RefreshSettleWith(id, o) ==
    /\ id \in inflight
    /\ inflight' = inflight \ {id}
    /\ atoms' = [atoms EXCEPT !["configAtom"] =
          IF RefreshTry(o).state = "fulfilled"
          THEN UpdateConfigAtom(@, RefreshSuccessUpdate(RefreshTry(o).value))
          ELSE UpdateConfigAtom(@, RefreshFailureUpdate)]
    /\ log' = Append(log,
          IF RefreshTry(o).state = "fulfilled"
          THEN Event("settle", id, TRUE, RefreshTry(o).value)
          ELSE Event("settle", id, FALSE, Undefined))
    /\ UNCHANGED <<serverData, props, renderPos, hydratedSet, observed, refreshes,
                   rerenders, rerenderChanged>>

RefreshSettle(id) == \E o \in RemoteOutcomes : RefreshSettleWith(id, o)

\* the layout is rendered again on the server and Providers re-renders with the
\* new props: HydrateClientAtoms, then SSRProvider, then the children
Rerender ==
    /\ Mounted
    /\ rerenders < MaxRerender
    /\ rerenders' = rerenders + 1
    /\ \E d \in ServerDataSet :
          LET p   == RootLayoutProps(d)
              st1 == UseHydrateAtoms([hyd |-> hydratedSet, cells |-> atoms],
                                     HydrateClientAtomsList(p.initialData))
              st2 == UseHydrateAtoms(st1, SSRProviderAtoms(p.ssrData))
          IN /\ props' = p
             /\ hydratedSet' = st2.hyd
             /\ atoms' = st2.cells
             /\ rerenderChanged' = (rerenderChanged \/ st2.cells # atoms)
             /\ observed' = observed \cup ReadsOf(st2.cells, p)
             /\ log' = IF st2.cells["configAtom"] # atoms["configAtom"]
                       THEN Append(log, Event("hydrate", 0, TRUE,
                                              st2.cells["configAtom"].config))
                       ELSE log
    /\ UNCHANGED <<serverData, renderPos, refreshes, inflight>>

----------------------------------------------------------------------------
(* The hydration round trip over every partial snapshot *)

Absent == [t |-> "absent"]

\* an object with the fields that are not Absent
Snapshot(c, ts, src) ==
    LET full == [t |-> Absent, config |-> c, timestamp |-> ts, source |-> src]
        keep == {k \in {"config", "timestamp", "source"} : full[k] # Absent}
    IN [k \in keep \cup {"t"} |-> IF k = "t" THEN "object" ELSE full[k]]

PartialSnapshots ==
    { Snapshot(c, ts, src) :
        c \in {Absent, Undefined, Null, X1, Y2},
        ts \in {Absent, Undefined, Str(""), toISOString(1)},
        src \in {Absent, Undefined, Str(""), Str("React Cache"), Str("Root Layout")} }
    \cup {Undefined}

HydrateInit ==
    /\ serverData = EmptySSRData
    /\ \E snap \in PartialSnapshots :
          props = [initialData |-> [t |-> "object"], ssrData |-> snap]
    /\ ClientIdle

----------------------------------------------------------------------------
(* updateConfigAtom applied to the config cell with every Partial<ConfigState> *)

ConfigFields == {"config", "isLoading", "error"}

\* the object literals that name at least one field of ConfigState
PartialUpdates ==
    { [k \in K |-> full[k]] :
        K \in (SUBSET ConfigFields) \ {{}},
        full \in [config : {Undefined, Null, X1, Y2},
                  isLoading : BOOLEAN,
                  error : {Null, Str("Failed to refresh config")}] }

\* set(updateConfigAtom, u)
ApplyUpdate(u) ==
    /\ Len(log) < MaxUpdates
    /\ atoms' = [atoms EXCEPT !["configAtom"] = UpdateConfigAtom(@, u)]
    /\ log' = Append(log, Event("update", 0, TRUE, u))
    /\ UNCHANGED <<serverData, props, renderPos, hydratedSet, observed, refreshes,
                   inflight, rerenders, rerenderChanged>>

----------------------------------------------------------------------------
(* The server store's functions called in any order by one caller, with    *)
(* every Partial<SSRData> as the argument of setServerSSRData              *)

SSRDataFields == {"config", "timestamp", "source"}

\* an object literal with the fields that are not Absent
Entry(c, ts, src) ==
    LET full == [config |-> c, timestamp |-> ts, source |-> src]
    IN [k \in {f \in SSRDataFields : full[f] # Absent} |-> full[k]]

PartialEntries ==
    { Entry(c, ts, src) :
        c \in {Absent, Undefined, Null, X1, Y2},
        ts \in {Absent, Str(""), toISOString(1), toISOString(2)},
        src \in {Absent, Str(""), Str("Root Layout")} }
    \ {Entry(Absent, Absent, Absent)}

RegistryCaller == "A"

\* setServerSSRData(d)
RegistrySet(d) ==
    /\ serverSSRData' = SetServerSSRData(serverSSRData, d)
    /\ published' = [published EXCEPT ![RegistryCaller] = d]
    /\ lpc' = [lpc EXCEPT ![RegistryCaller] = "rendering"]
    /\ UNCHANGED reads

\* getServerSSRData()
RegistryGet ==
    /\ reads' = [reads EXCEPT ![RegistryCaller] = GetServerSSRData(serverSSRData)]
    /\ lpc' = [lpc EXCEPT ![RegistryCaller] = "done"]
    /\ UNCHANGED <<serverSSRData, published>>

\* resetServerSSRData(): nothing is published any more
RegistryReset ==
    /\ serverSSRData' = ResetServerSSRData(serverSSRData)
    /\ published' = [published EXCEPT ![RegistryCaller] = NoValue]
    /\ lpc' = [lpc EXCEPT ![RegistryCaller] = "idle"]
    /\ UNCHANGED reads

----------------------------------------------------------------------------
(* The auth store, useAuth and the HTTP client's response interceptor *)

Paths  == {"/login", "/config"}
Tokens == {Str("T1"), Str("T2")}
AuthUser(id) == [t |-> "object", id |-> id]
Users  == {AuthUser("u1"), AuthUser("u2")}

\* initialAuthState
InitialAuthState ==
    [user |-> Null, token |-> Null, isAuthenticated |-> FALSE,
     isLoading |-> FALSE, error |-> Null]

\* a login that stores the session without raising the flag
LoginAtomUnflagged(user, token) ==
    [user |-> user, token |-> token, isAuthenticated |-> FALSE,
     isLoading |-> FALSE, error |-> Null]

\* loginAtom's write to authAtom (its localStorage write is in LoginStorage)
LoginAtom(user, token) ==
    [user |-> user, token |-> token, isAuthenticated |-> TRUE,
     isLoading |-> FALSE, error |-> Null]

\* loginAtom's localStorage.setItem('token', token)
LoginStorage(token) == token

\* logoutAtom: the cell goes back to initialAuthState, the token is removed
LogoutAtom == InitialAuthState
LogoutStorage == Null

\* setAuthErrorAtom
SetAuthError(cur, error) == [cur EXCEPT !.error = error, !.isLoading = FALSE]

\* setAuthLoadingAtom
SetAuthLoading(cur, isLoading) ==
    [cur EXCEPT !.isLoading = isLoading,
                !.error = IF isLoading THEN Null ELSE cur.error]

\* response bodies of authService.login and authService.decodeJWT
LoginBody(user, token) ==
    [t |-> "object", result |-> [t |-> "object",
                                 data |-> [t |-> "object", user |-> user, token |-> token]]]
DecodeBody(data) == [t |-> "object", result |-> [t |-> "object", data |-> data]]

Unauthorized ==
    Rejected(Err(TRUE, TRUE, TRUE, AxiosResponse(401, "Unauthorized"), TRUE,
                 Str("Request failed with status code 401")))
NetworkDown == Rejected(Err(TRUE, TRUE, TRUE, Undefined, TRUE, Str("Network Error")))

LoginOutcomes ==
    { Resolved(LoginBody(u, t)) : u \in Users, t \in Tokens } \cup {Unauthorized, NetworkDown}
DecodeOutcomes ==
    { Resolved(DecodeBody(d)) : d \in Users \cup {Null} } \cup {Unauthorized, NetworkDown}

\* error.response?.status === 401
Is401(o) ==
    /\ o.kind = "rejected"
    /\ o.error.response # Undefined
    /\ o.error.response.status = 401

\* the response interceptor: localStorage's token after the response o
InterceptToken(o, token) == IF Is401(o) THEN Null ELSE token

\* the response interceptor: whether it assigns window.location.href
InterceptRedirects(o, path) == Is401(o) /\ path # "/login"

\* a document load: the store is fresh, localStorage survives from earlier
\* visits, AuthProvider's effect is about to run
AuthInit ==
    /\ auth = InitialAuthState
    /\ localToken \in {Null} \cup Tokens
    /\ pathname \in Paths
    /\ authCalls = {}
    /\ navigating = FALSE
    /\ effectDue = TRUE

\* no visitor: nothing stored, nothing due
AuthParked ==
    /\ auth = InitialAuthState
    /\ localToken = Null
    /\ pathname = "/login"
    /\ authCalls = {}
    /\ navigating = FALSE
    /\ effectDue = FALSE

\* AuthProvider's effect runs again when isAuthenticated changes
AuthWrite(next) ==
    /\ auth' = next
    /\ effectDue' = (effectDue \/ next.isAuthenticated # auth.isAuthenticated)

\* restoreSession up to its await, as AuthProvider's effect calls it
AuthEffect ==
    /\ effectDue
    /\ effectDue' = FALSE
    /\ IF ~auth.isAuthenticated /\ Truthy(localToken)
       THEN /\ auth' = SetAuthLoading(auth, TRUE)
            /\ authCalls' = authCalls \cup {[op |-> "restore", token |-> localToken]}
       ELSE UNCHANGED <<auth, authCalls>>
    /\ UNCHANGED <<localToken, pathname, navigating>>

\* restoreSession after its await
RestoreSettle(call, o) ==
    /\ call \in authCalls
    /\ call.op = "restore"
    /\ o \in DecodeOutcomes
    /\ authCalls' = authCalls \ {call}
    /\ navigating' = (navigating \/ InterceptRedirects(o, pathname))
    /\ IF o.kind = "resolved" /\ Truthy(o.body.result.data)
       THEN /\ AuthWrite(LoginAtom(o.body.result.data, call.token))
            /\ localToken' = LoginStorage(call.token)
       ELSE /\ AuthWrite(LogoutAtom)
            /\ localToken' = LogoutStorage
    /\ UNCHANGED pathname

\* LoginForm's submit and signIn up to its await
SignInStart ==
    /\ pathname = "/login"
    /\ ~auth.isLoading
    /\ auth' = SetAuthLoading(auth, TRUE)
    /\ authCalls' = authCalls \cup {[op |-> "signIn", token |-> Null]}
    /\ UNCHANGED <<localToken, pathname, navigating, effectDue>>

\* signIn after its await
SignInSettle(call, o) ==
    /\ call \in authCalls
    /\ call.op = "signIn"
    /\ o \in LoginOutcomes
    /\ authCalls' = authCalls \ {call}
    /\ navigating' = (navigating \/ InterceptRedirects(o, pathname))
    /\ IF o.kind = "resolved"
       THEN /\ AuthWrite(LoginAtom(o.body.result.data.user, o.body.result.data.token))
            /\ localToken' = LoginStorage(o.body.result.data.token)
       ELSE /\ AuthWrite(SetAuthError(auth, Str("Login failed")))
            /\ localToken' = InterceptToken(o, localToken)
    /\ UNCHANGED pathname

\* AuthStatus's sign-out button
SignOut ==
    /\ pathname = "/config"
    /\ auth.isAuthenticated
    /\ ~auth.isLoading
    /\ AuthWrite(LogoutAtom)
    /\ localToken' = LogoutStorage
    /\ UNCHANGED <<pathname, authCalls, navigating>>

\* LoginForm's effect on a truthy error
ClearError ==
    /\ pathname = "/login"
    /\ Truthy(auth.error)
    /\ AuthWrite(SetAuthError(auth, Str("")))
    /\ UNCHANGED <<localToken, pathname, authCalls, navigating>>

\* any other call through the HTTP client answered 401 (the config page's
\* refresh): only the interceptor acts
ApiResponse401 ==
    /\ pathname = "/config"
    /\ localToken' = InterceptToken(Unauthorized, localToken)
    /\ navigating' = (navigating \/ InterceptRedirects(Unauthorized, pathname))
    /\ UNCHANGED <<auth, pathname, authCalls, effectDue>>

\* the document load that follows window.location.href = '/login'
PageLoad ==
    /\ navigating
    /\ auth' = InitialAuthState
    /\ authCalls' = {}
    /\ pathname' = "/login"
    /\ navigating' = FALSE
    /\ effectDue' = TRUE
    /\ UNCHANGED localToken

\* client-side navigation: LoginForm's router.push('/config') and links
RouterPush(p) ==
    /\ p \in Paths \ {pathname}
    /\ p = "/config" => auth.isAuthenticated
    /\ pathname' = p
    /\ UNCHANGED <<auth, localToken, authCalls, navigating, effectDue>>

----------------------------------------------------------------------------
(* Specifications *)

FetchParked  == FetchInit
ClientParked == /\ serverData = EmptySSRData
                /\ props = RootLayoutProps(EmptySSRData)
                /\ ClientIdle

\* the request cache under two concurrent requests
Init == FetchParked /\ clock = 1 /\ CacheInit /\ StoreInit /\ ClientParked /\ AuthParked
Next ==
    \/ Tick /\ UNCHANGED <<fetchVars, cacheVars, storeVars, clientVars, authVars>>
    \/ \E r \in Req, c \in Callers :
          CacheMiss(r, c) /\ UNCHANGED <<fetchVars, clock, storeVars, clientVars, authVars>>
    \/ \E r \in Req, c \in Callers :
          CacheHit(r, c) /\ UNCHANGED <<fetchVars, clock, storeVars, clientVars, authVars>>
    \/ \E r \in Req :
          RemoteAnswers(r) /\ UNCHANGED <<fetchVars, clock, storeVars, clientVars, authVars>>
    \/ \E r \in Req, c \in Callers :
          Resume(r, c) /\ UNCHANGED <<fetchVars, clock, storeVars, clientVars, authVars>>
Spec == Init /\ [][Next]_vars

\* fetchConfig over every outcome of getConfig
NextFetch ==
    \/ FetchCall /\ UNCHANGED <<clock, cacheVars, storeVars, clientVars, authVars>>
    \/ FetchSettle /\ UNCHANGED <<clock, cacheVars, storeVars, clientVars, authVars>>
    \/ FetchDone /\ UNCHANGED <<clock, cacheVars, storeVars, clientVars, authVars>>
SpecFetch == Init /\ [][NextFetch]_vars

\* the module-level server store under two concurrent requests
NextStore ==
    \/ Tick /\ UNCHANGED <<fetchVars, cacheVars, storeVars, clientVars, authVars>>
    \/ \E r \in Req :
          LayoutFetch(r) /\ UNCHANGED <<fetchVars, clock, cacheVars, clientVars, authVars>>
    \/ \E r \in Req :
          LayoutPublish(r) /\ UNCHANGED <<fetchVars, clock, cacheVars, clientVars, authVars>>
    \/ \E r \in Req :
          DescendantRead(r) /\ UNCHANGED <<fetchVars, clock, cacheVars, clientVars, authVars>>
    \/ \E r \in Req :
          RequestEnds(r) /\ UNCHANGED <<fetchVars, clock, cacheVars, clientVars, authVars>>
SpecStore == Init /\ [][NextStore]_vars

\* the module-level server store when the server renders one request at a time
NextSequential ==
    \/ Tick /\ UNCHANGED <<fetchVars, cacheVars, storeVars, clientVars, authVars>>
    \/ \E r \in Req :
          /\ OneAtATime(r)
          /\ LayoutFetch(r) /\ UNCHANGED <<fetchVars, clock, cacheVars, clientVars, authVars>>
    \/ \E r \in Req :
          LayoutPublish(r) /\ UNCHANGED <<fetchVars, clock, cacheVars, clientVars, authVars>>
    \/ \E r \in Req :
          DescendantRead(r) /\ UNCHANGED <<fetchVars, clock, cacheVars, clientVars, authVars>>
    \/ \E r \in Req :
          RequestEnds(r) /\ UNCHANGED <<fetchVars, clock, cacheVars, clientVars, authVars>>
SpecSequential == Init /\ [][NextSequential]_vars

\* one request served through the request cache while the requests of the
\* store version publish to and read from the module-level store; the config
\* that is passed on does not depend on the time of the fetch, so the clock
\* stands still here
ServedByCache == "A"
NextServer ==
    \/ \E c \in Callers :
          CacheMiss(ServedByCache, c)
             /\ UNCHANGED <<fetchVars, clock, storeVars, clientVars, authVars>>
    \/ \E c \in Callers :
          CacheHit(ServedByCache, c)
             /\ UNCHANGED <<fetchVars, clock, storeVars, clientVars, authVars>>
    \/ RemoteAnswers(ServedByCache)
          /\ UNCHANGED <<fetchVars, clock, storeVars, clientVars, authVars>>
    \/ \E c \in Callers :
          Resume(ServedByCache, c)
             /\ UNCHANGED <<fetchVars, clock, storeVars, clientVars, authVars>>
    \/ \E r \in Req :
          LayoutFetch(r) /\ UNCHANGED <<fetchVars, clock, cacheVars, clientVars, authVars>>
    \/ \E r \in Req :
          LayoutPublish(r) /\ UNCHANGED <<fetchVars, clock, cacheVars, clientVars, authVars>>
    \/ \E r \in Req :
          DescendantRead(r) /\ UNCHANGED <<fetchVars, clock, cacheVars, clientVars, authVars>>
    \/ \E r \in Req :
          RequestEnds(r) /\ UNCHANGED <<fetchVars, clock, cacheVars, clientVars, authVars>>
SpecServer == Init /\ [][NextServer]_vars

\* setServerSSRData, getServerSSRData and resetServerSSRData in any order
NextRegistry ==
    \/ \E d \in PartialEntries :
          RegistrySet(d) /\ UNCHANGED <<fetchVars, clock, cacheVars, clientVars, authVars>>
    \/ RegistryGet /\ UNCHANGED <<fetchVars, clock, cacheVars, clientVars, authVars>>
    \/ RegistryReset /\ UNCHANGED <<fetchVars, clock, cacheVars, clientVars, authVars>>
SpecRegistry == Init /\ [][NextRegistry]_vars

\* partial updates of the config cell, one after the other
NextUpdate ==
    \E u \in PartialUpdates :
        ApplyUpdate(u) /\ UNCHANGED <<fetchVars, clock, cacheVars, storeVars, authVars>>
SpecUpdate == Init /\ [][NextUpdate]_vars

\* one browser session: mount, reads, refreshes, a re-render
InitClient ==
    FetchParked /\ clock = 1 /\ CacheInit /\ StoreInit /\ ClientInit /\ AuthParked
NextClient ==
    \/ RenderHydrateClientAtoms
        /\ UNCHANGED <<fetchVars, clock, cacheVars, storeVars, authVars>>
    \/ RenderSSRProvider /\ UNCHANGED <<fetchVars, clock, cacheVars, storeVars, authVars>>
    \/ RenderAuthProvider /\ UNCHANGED <<fetchVars, clock, cacheVars, storeVars, authVars>>
    \/ RenderChildren /\ UNCHANGED <<fetchVars, clock, cacheVars, storeVars, authVars>>
    \/ ChildRead /\ UNCHANGED <<fetchVars, clock, cacheVars, storeVars, authVars>>
    \/ \E b \in Buttons :
          RefreshStart(b) /\ UNCHANGED <<fetchVars, clock, cacheVars, storeVars, authVars>>
    \/ \E id \in 1..MaxRefresh :
          RefreshSettle(id) /\ UNCHANGED <<fetchVars, clock, cacheVars, storeVars, authVars>>
    \/ Rerender /\ UNCHANGED <<fetchVars, clock, cacheVars, storeVars, authVars>>
SpecClient == InitClient /\ [][NextClient]_vars

\* the network call of every refresh in flight eventually resolves or rejects
RefreshesSettle ==
    \A id \in 1..MaxRefresh :
        WF_vars(RefreshSettle(id)
            /\ UNCHANGED <<fetchVars, clock, cacheVars, storeVars, authVars>>)
SpecClientLive == InitClient /\ [][NextClient]_vars /\ RefreshesSettle

\* the mount of the provider tree over every partial snapshot
InitHydrate ==
    FetchParked /\ clock = 1 /\ CacheInit /\ StoreInit /\ HydrateInit /\ AuthParked
NextHydrate ==
    \/ RenderHydrateClientAtoms
        /\ UNCHANGED <<fetchVars, clock, cacheVars, storeVars, authVars>>
    \/ RenderSSRProvider /\ UNCHANGED <<fetchVars, clock, cacheVars, storeVars, authVars>>
    \/ RenderAuthProvider /\ UNCHANGED <<fetchVars, clock, cacheVars, storeVars, authVars>>
    \/ RenderChildren /\ UNCHANGED <<fetchVars, clock, cacheVars, storeVars, authVars>>
SpecHydrate == InitHydrate /\ [][NextHydrate]_vars

\* the auth store under sign-in, sign-out, session restore and 401 responses
NextAuth ==
    \/ AuthEffect /\ UNCHANGED <<fetchVars, clock, cacheVars, storeVars, clientVars>>
    \/ \E call \in authCalls, o \in DecodeOutcomes :
          /\ RestoreSettle(call, o)
          /\ UNCHANGED <<fetchVars, clock, cacheVars, storeVars, clientVars>>
    \/ SignInStart /\ UNCHANGED <<fetchVars, clock, cacheVars, storeVars, clientVars>>
    \/ \E call \in authCalls, o \in LoginOutcomes :
          /\ SignInSettle(call, o)
          /\ UNCHANGED <<fetchVars, clock, cacheVars, storeVars, clientVars>>
    \/ SignOut /\ UNCHANGED <<fetchVars, clock, cacheVars, storeVars, clientVars>>
    \/ ClearError /\ UNCHANGED <<fetchVars, clock, cacheVars, storeVars, clientVars>>
    \/ ApiResponse401 /\ UNCHANGED <<fetchVars, clock, cacheVars, storeVars, clientVars>>
    \/ PageLoad /\ UNCHANGED <<fetchVars, clock, cacheVars, storeVars, clientVars>>
    \/ \E p \in Paths :
          RouterPush(p) /\ UNCHANGED <<fetchVars, clock, cacheVars, storeVars, clientVars>>
InitAuth == FetchParked /\ clock = 1 /\ CacheInit /\ StoreInit /\ ClientParked /\ AuthInit
SpecAuth == InitAuth /\ [][NextAuth]_vars

----------------------------------------------------------------------------
(* Properties *)

Called(r) == \E c \in Callers : pc[r][c] # "idle"

C2_NoCrossRequestLeak ==
    \A r \in Req, r2 \in Req :
        (/\ r # r2
         /\ lpc[r] = "done"
         /\ published[r2] # NoValue
         /\ published[r2] # published[r])
        => reads[r] # published[r2]

\* C3: the cache is keyed by the request: each request that calls the cache
\* triggers its own fetch and every caller receives the config the remote
\* service answered to its own request; when A is answered X/1 and B Y/2,
\* A's callers hold X/1 and B's hold Y/2.
C3_KeyedByRequest ==
    \A r \in Req, c \in Callers :
        pc[r][c] = "done" =>
            /\ cacheFetches[r] = 1
            /\ answered[r] # NoValue
            /\ got[r][c].config = answered[r].value.result

\* A was answered X/1, B concurrently Y/2, and every caller has its data
C3_Witness ==
    /\ \A r \in Req, c \in Callers : pc[r][c] = "done"
    /\ \A c \in Callers : got["A"][c].config = X1 /\ got["B"][c].config = Y2

\* C4: within one request every caller of the request cache receives the same
\* SSRData: the same config, timestamp and source.
C4_SameDataForEveryCaller ==
    \A r \in Req, c1 \in Callers, c2 \in Callers :
        (pc[r][c1] = "done" /\ pc[r][c2] = "done") => got[r][c1] = got[r][c2]

\* all callers of both requests are done and the two requests hold different data
C4_Witness ==
    /\ \A r \in Req, c \in Callers : pc[r][c] = "done"
    /\ got["A"]["Root Layout"] # got["B"]["Root Layout"]
    /\ got["A"]["Root Layout"].timestamp = toISOString(2)

\* the cell a field of the snapshot is hydrated into
CellOf(field) ==
    CASE field = "config" -> "ssrConfigAtom"
      [] field = "timestamp" -> "ssrTimestampAtom"
      [] field = "source" -> "ssrSourceAtom"

SSRProviderRendered == renderPos > 2

\* C5: applying prepareSSRData's payload to a fresh store gives every cell
\* whose field is defined in the snapshot exactly that field's value, and
\* leaves every other cell at its declared default.
C5_RoundTrip ==
    SSRProviderRendered =>
        /\ \A f \in {"config", "timestamp", "source"} :
              atoms[CellOf(f)] =
                 IF Truthy(props.ssrData) /\ Prop(props.ssrData, f) # Undefined
                 THEN props.ssrData[f] ELSE DefaultOf(CellOf(f))
        /\ atoms["configAtom"] = DefaultOf("configAtom")

\* a snapshot with a null config, a timestamp and no source has been applied
C5_Witness ==
    /\ SSRProviderRendered
    /\ Truthy(props.ssrData)
    /\ DOMAIN props.ssrData = {"t", "config", "timestamp"}
    /\ props.ssrData.config = Null
    /\ atoms["ssrTimestampAtom"] = toISOString(1)
    /\ atoms["ssrSourceAtom"] = Str("")

\* C6: a second application of a hydration payload, after the children have
\* read the store, leaves the store exactly as it was.
C6_SecondApplyIsNoOp == ~rerenderChanged

\* C7: no child under Providers reads the declared default of a cell for
\* which the server supplied a value.
C7_SeededBeforeRead ==
    \A obs \in observed : obs.supplied => obs.value # DefaultOf(obs.cell)

\* the children have read a seeded config cell
C7_Witness ==
    \E obs \in observed :
        /\ obs.cell = "configAtom"
        /\ obs.supplied
        /\ obs.value = [config |-> X1, isLoading |-> FALSE, error |-> Null]

\* the config as the client store's type (Config | null) holds it
Held(c) == IF c.t \in {"undefined", "null"} THEN Null ELSE c

C9_FetchConfigNeverRejects ==
    fcPhase = "settled" =>
        /\ fcSettled.state = "fulfilled"
        /\ "result" \in DOMAIN fcSettled.value

\* getConfig rejected and fetchConfig resolved with the fallback
C9_Witness ==
    /\ fcPhase = "settled"
    /\ fcOutcome.kind = "rejected"
    /\ fcSettled.state = "fulfilled"
    /\ Degraded(fcSettled.value.result)

\* C10: a network failure, a non-success status and a response missing the
\* expected fields all give the degraded snapshot.
C10_AllFailuresDegraded ==
    (/\ fcPhase = "settled"
     /\ (NetworkFailure(fcOutcome) \/ HttpFailure(fcOutcome) \/ ShapeFailure(fcOutcome)))
    => /\ fcSettled.state = "fulfilled"
       /\ Degraded(fcSettled.value.result)

\* the fields of the fallback snapshot
FallbackFields ==
    {"error", "errorDetails", "statusCode", "expectedEndpoint", "lastAttempt",
     "appName", "version", "environment", "apiStatus", "fallbackData",
     "features", "settings"}

\* C11: whenever fetchConfig takes its failure path (its try block throws),
\* the snapshot it returns has every fallback field non-null, with apiStatus
\* "disconnected", fallbackData true and the default features and settings.
C11_FallbackFieldsNonNull ==
    (fcPhase = "settled" /\ FetchTry(fcOutcome).state = "rejected") =>
        LET r == fcSettled.value.result IN
        /\ \A f \in FallbackFields : Prop(r, f).t \notin {"undefined", "null"}
        /\ r.apiStatus = Str("disconnected")
        /\ r.fallbackData = Bool(TRUE)
        /\ r.features = [t |-> "object", jobBoard |-> TRUE, userProfiles |-> TRUE,
                         messaging |-> TRUE]
        /\ r.settings = [t |-> "object", itemsPerPage |-> 10,
                         maxFileSize |-> Str("5MB")]

\* getConfig rejected with an object that has a response key and no message:
\* the fallback carries the default detail and code
C11_Witness ==
    /\ fcPhase = "settled"
    /\ fcOutcome = Rejected(Err(TRUE, FALSE, TRUE, Undefined, FALSE, Undefined))
    /\ fcSettled.value.result.errorDetails = Str("Unknown error")
    /\ fcSettled.value.result.statusCode = Str("Unknown")

\* the degraded snapshot reaches every caller of the request cache
DegradedThroughCache ==
    \A r \in Req :
        (answered[r] # NoValue /\ Degraded(answered[r].value.result)) =>
            /\ cacheValue[CacheKey(r)].config = answered[r].value.result
            /\ \A c \in Callers :
                  pc[r][c] = "done" => got[r][c].config = answered[r].value.result

\* the layout publishes the degraded snapshot and getServerSSRData, called
\* after the publication, returns it
DegradedThroughStore ==
    \A r \in Req, o \in RemoteOutcomes :
        (LayoutPublishWith(r, o) /\ Degraded(FetchConfig(o, clock).value.result)) =>
            GetServerSSRData(serverSSRData').config = FetchConfig(o, clock).value.result

\* C12: a degraded snapshot returned by fetchConfig is passed through unchanged
\* by the request cache and by the server store: the config getCachedConfigData
\* resolves with, and the config getServerSSRData returns after the
\* publication, are that same snapshot.
C12_DegradedPassedThrough ==
    []DegradedThroughCache /\ [][DegradedThroughStore]_vars

\* a caller of the cache holds a degraded snapshot, and a descendant of a
\* store-version request has read the degraded snapshot its layout published
C12_Witness ==
    /\ \E c \in Callers :
          pc[ServedByCache][c] = "done" /\ Degraded(got[ServedByCache][c].config)
    /\ \E r \in Req :
          /\ lpc[r] = "done"
          /\ published[r] # NoValue
          /\ Degraded(published[r].config)
          /\ reads[r] = published[r]

\* the config cell as the store holds it
ConfigState == atoms["configAtom"]

\* C13: when a client refresh fails, the store's config stays what it was,
\* error is set to a message and isLoading returns to false; starting the
\* refresh does not change the config either.
C13_FailedRefreshKeepsConfig ==
    [][/\ \A b \in Buttons :
             RefreshStart(b) => ConfigState'.config = ConfigState.config
       /\ \A id \in 1..MaxRefresh, o \in RemoteOutcomes :
             (RefreshSettleWith(id, o) /\ RefreshTry(o).state = "rejected") =>
                /\ ConfigState'.config = ConfigState.config
                /\ ConfigState'.error.t = "string" /\ Truthy(ConfigState'.error)
                /\ ConfigState'.isLoading = FALSE]_vars

\* the store was hydrated with X/1 and the only refresh has failed
C13_Witness ==
    /\ serverData.config = X1
    /\ log = <<Event("start", 1, TRUE, X1), Event("settle", 1, FALSE, Undefined)>>
    /\ ConfigState = [config |-> X1, isLoading |-> FALSE,
                      error |-> Str("Failed to refresh config")]

\* C14: when a client refresh succeeds, the store becomes {config: the fetched
\* result, isLoading: false, error: null}, whatever it held before.
C14_SuccessfulRefreshReplaces ==
    [][\A id \in 1..MaxRefresh, o \in RemoteOutcomes :
          (RefreshSettleWith(id, o) /\ RefreshTry(o).state = "fulfilled") =>
             ConfigState' = [config |-> RefreshTry(o).value, isLoading |-> FALSE,
                             error |-> Null]]_vars

\* after a failed refresh left an error over X/1, a second refresh fetched Y/2
C14_Witness ==
    /\ serverData.config = X1
    /\ Len(log) = 4
    /\ log[2] = Event("settle", 1, FALSE, Undefined)
    /\ log[4] = Event("settle", 2, TRUE, Y2)
    /\ ConfigState = [config |-> Y2, isLoading |-> FALSE, error |-> Null]

\* positions in the log of the start and the completion of a refresh (0: none)
StartOf(id) ==
    IF \E k \in 1..Len(log) : log[k].ev = "start" /\ log[k].id = id
    THEN CHOOSE k \in 1..Len(log) : log[k].ev = "start" /\ log[k].id = id
    ELSE 0
EndOf(id) ==
    IF \E k \in 1..Len(log) : log[k].ev = "settle" /\ log[k].id = id
    THEN CHOOSE k \in 1..Len(log) : log[k].ev = "settle" /\ log[k].id = id
    ELSE 0

\* refreshes a and b were in flight at the same time and both succeeded
BothSucceededOverlapping(a, b) ==
    /\ a # b
    /\ StartOf(a) > 0 /\ StartOf(b) > 0 /\ EndOf(a) > 0 /\ EndOf(b) > 0
    /\ StartOf(a) < EndOf(b) /\ StartOf(b) < EndOf(a)
    /\ log[EndOf(a)].ok /\ log[EndOf(b)].ok

\* C15: if two client refreshes overlap and both succeed, the config in the
\* store after both is the result of the one whose network call completed
\* last, whichever started first.
C15_LastToCompleteWins ==
    \A a \in 1..MaxRefresh, b \in 1..MaxRefresh :
        (/\ BothSucceededOverlapping(a, b)
         /\ EndOf(a) < EndOf(b)
         /\ EndOf(b) = Len(log))
        => ConfigState.config = log[EndOf(b)].result

\* refresh 2 started while refresh 1 was in flight, fetched X/1 and completed
\* first; refresh 1 fetched Y/2 and completed last
C15_Witness ==
    /\ BothSucceededOverlapping(1, 2)
    /\ StartOf(1) < StartOf(2)
    /\ EndOf(2) < EndOf(1)
    /\ EndOf(1) = Len(log)
    /\ log[EndOf(2)].result = X1
    /\ log[EndOf(1)].result = Y2
    /\ ConfigState.config = Y2

\* C16: if refresh R1 starts before R2 and R2's network call completes first,
\* R1 completing later does not overwrite R2's data: the final config is R2's.
C16_LateCompletionDoesNotOverwrite ==
    \A r1 \in 1..MaxRefresh, r2 \in 1..MaxRefresh :
        (/\ BothSucceededOverlapping(r1, r2)
         /\ StartOf(r1) < StartOf(r2)
         /\ EndOf(r2) < EndOf(r1)
         /\ EndOf(r1) = Len(log))
        => ConfigState.config = log[EndOf(r2)].result

\* C17: while a client refresh is in flight the refresh button of every
\* component bound to the config store is disabled, so at most one refresh
\* is in flight at any time.
C17_SingleRefreshInFlight ==
    /\ inflight # {} => \A b \in Buttons : Disabled(b)
    /\ Cardinality(inflight) <= 1

\* C18: publishing fully replaces the previous entry: after setServerSSRData(d),
\* getServerSSRData returns d's fields and, for a field d does not define,
\* nothing of the entry published before (it is absent or empty).
C18_PublishReplaces ==
    (lpc[RegistryCaller] = "done" /\ published[RegistryCaller] # NoValue) =>
        \A f \in SSRDataFields :
            IF f \in DOMAIN published[RegistryCaller]
            THEN Prop(reads[RegistryCaller], f) = published[RegistryCaller][f]
            ELSE Prop(reads[RegistryCaller], f) \in {Undefined, EmptySSRData[f]}

\* C19: getServerSSRData returns {config: null, timestamp: "", source: ""}
\* whenever nothing has been published since start-up or since the last
\* resetServerSSRData.
C19_EmptyWhenNothingPublished ==
    published[RegistryCaller] = NoValue =>
        /\ GetServerSSRData(serverSSRData) = EmptySSRData
        /\ lpc[RegistryCaller] = "done" => reads[RegistryCaller] = EmptySSRData

\* an entry was published and read, and the slot has been reset since
C19_Witness ==
    /\ lpc[RegistryCaller] = "idle"
    /\ published[RegistryCaller] = NoValue
    /\ reads[RegistryCaller] = [config |-> X1, timestamp |-> toISOString(1),
                                source |-> Str("Root Layout")]
    /\ serverSSRData = EmptySSRData

\* the place of a field in the fixed order config, timestamp, source
Rank(cell) ==
    CASE cell = "ssrConfigAtom" -> 1
      [] cell = "ssrTimestampAtom" -> 2
      [] cell = "ssrSourceAtom" -> 3

\* C20: for every snapshot prepareSSRData returns, in the order config,
\* timestamp, source, exactly one (cell, value) pair for each field that is
\* defined and no pair for a field that is undefined or absent; a field whose
\* value is null still gives a pair.
C20_PrepareSSRDataTotal ==
    (SSRProviderRendered /\ Truthy(props.ssrData)) =>
        LET data == props.ssrData
            out  == PrepareSSRData(data)
        IN /\ \A f \in SSRDataFields :
                 Cardinality({i \in 1..Len(out) : out[i][1] = CellOf(f)}) =
                    IF Prop(data, f) # Undefined THEN 1 ELSE 0
           /\ \A i \in 1..Len(out) :
                 /\ out[i][1] \in {CellOf(f) : f \in SSRDataFields}
                 /\ \E f \in SSRDataFields :
                       out[i][1] = CellOf(f) /\ out[i][2] = data[f]
           /\ \A i \in 1..Len(out), j \in 1..Len(out) :
                 i < j => Rank(out[i][1]) < Rank(out[j][1])
           /\ Prop(data, "config") = Null => out[1] = <<"ssrConfigAtom", Null>>

\* SSRProvider has prepared a snapshot with a null config, an undefined
\* timestamp and a source: a pair for the config, none for the timestamp
C20_Witness ==
    /\ SSRProviderRendered
    /\ Truthy(props.ssrData)
    /\ DOMAIN props.ssrData = {"t", "config", "timestamp", "source"}
    /\ props.ssrData.timestamp = Undefined
    /\ PrepareSSRData(props.ssrData) =
          << <<"ssrConfigAtom", Null>>, <<"ssrSourceAtom", Str("React Cache")>> >>

\* the updates of the log that name the field
Naming(f) == {k \in 1..Len(log) : log[k].ev = "update" /\ f \in DOMAIN log[k].result}

\* the value the latest update naming the field gave it, or its initial value
LastWritten(f) ==
    IF Naming(f) = {} THEN DefaultOf("configAtom")[f]
    ELSE log[CHOOSE k \in Naming(f) : \A j \in Naming(f) : j <= k].result[f]

\* C21: updateConfigAtom is a shallow merge: after a partial update every
\* field the update names has the update's value and every other field of
\* {config, isLoading, error} is unchanged; of two updates of one field the
\* later wins.
C21_ShallowMerge ==
    /\ DOMAIN ConfigState = ConfigFields
    /\ \A f \in ConfigFields : ConfigState[f] = LastWritten(f)

\* a first update gave a config and an error, a second one another config
C21_Witness ==
    /\ Len(log) = 2
    /\ log[1].result = [config |-> X1, error |-> Str("Failed to refresh config")]
    /\ log[2].result = [config |-> Y2]
    /\ ConfigState = [config |-> Y2, isLoading |-> FALSE,
                      error |-> Str("Failed to refresh config")]

\* C22: starting a client refresh sets isLoading to true and error to null
\* and leaves the config unchanged, and until that refresh completes the
\* store holds the config it held when the refresh started.
C22_ConfigHeldWhileInFlight ==
    \A id \in inflight :
        /\ StartOf(id) = Len(log) =>
              (ConfigState.isLoading = TRUE /\ ConfigState.error = Null)
        /\ ConfigState.config = log[StartOf(id)].result

C25_CacheNeverReturnsErrorResult ==
    \A r \in Req :
        cacheValue[CacheKey(r)] # NoValue =>
            /\ cacheValue[CacheKey(r)].source = Str("React Cache")
            /\ cacheValue[CacheKey(r)].source # Str("React Cache (Error)")
            /\ answered[r].state = "fulfilled"
            /\ cacheValue[CacheKey(r)].config = answered[r].value.result
            /\ \A c \in Callers :
                  pc[r][c] = "done" => got[r][c].source = Str("React Cache")

\* the remote service was unreachable and the cache still resolved with the
\* normal result, whose config is the fallback
C25_Witness ==
    \E r \in Req :
        /\ cacheValue[CacheKey(r)] # NoValue
        /\ cacheValue[CacheKey(r)].source = Str("React Cache")
        /\ Degraded(cacheValue[CacheKey(r)].config)
        /\ \A c \in Callers : pc[r][c] = "done"

\* C26: isLoading is true exactly when a refresh is in flight.
C26_LoadingIffInFlight == ConfigState.isLoading <=> (inflight # {})

\* a config the store holds
NonNull(c) == c.t \notin {"null", "undefined"}

\* C27: once the store holds a non-null config, no refresh start, no refresh
\* success carrying a non-null result and no refresh failure makes the config
\* null again.
C27_ConfigNeverNulled ==
    [][(/\ NonNull(ConfigState.config)
        /\ \/ \E b \in Buttons : RefreshStart(b)
           \/ \E id \in 1..MaxRefresh, o \in RemoteOutcomes :
                 /\ RefreshSettleWith(id, o)
                 /\ \/ RefreshTry(o).state = "rejected"
                    \/ NonNull(RefreshTry(o).value))
       => NonNull(ConfigState'.config)]_vars

\* the store held X/1, a refresh replaced it by Y/2 and the next one failed
C27_Witness ==
    /\ serverData.config = X1
    /\ Len(log) = 4
    /\ log[1] = Event("start", 1, TRUE, X1)
    /\ log[2] = Event("settle", 1, TRUE, Y2)
    /\ log[4] = Event("settle", 2, FALSE, Undefined)
    /\ ConfigState.config = Y2

\* C28: every client refresh that is started eventually completes, given that
\* its network call settles; its completion sets isLoading to false, and
\* isLoading is never true when no refresh is in flight.
C28_RefreshCompletes ==
    /\ \A id \in 1..MaxRefresh :
          (id \in inflight) ~> (id \notin inflight /\ EndOf(id) > 0)
    /\ [](inflight = {} => ~ConfigState.isLoading)
    /\ [][\A id \in 1..MaxRefresh, o \in RemoteOutcomes :
             RefreshSettleWith(id, o) => ~ConfigState'.isLoading]_vars

\* two refreshes have run one after the other and both have completed, the
\* second with a failure
C28_Witness ==
    /\ refreshes = 2
    /\ inflight = {}
    /\ EndOf(1) > 0 /\ EndOf(1) < StartOf(2) /\ EndOf(2) = Len(log)
    /\ ~log[EndOf(2)].ok
    /\ ~ConfigState.isLoading


C30_StoredTokenMatches ==
    auth.isAuthenticated => localToken = auth.token

====
